---- MODULE Spec2Model ----
(***************************************************************************)
(* PlasmidFlow (src/plass_apps29.py): a Dash application.  The state is    *)
(* the content of the two dcc.Store components, the values of the UI       *)
(* controls and the children of the output components; the operations are  *)
(* the six callbacks.  One user action fires the callbacks whose Input it  *)
(* changes, followed by the callbacks whose Input those callbacks write.   *)
(*                                                                         *)
(* Python values are tagged tuples: <<"None">>, <<"str", s>>, <<"num", n>>,*)
(* <<"dict", f>>, <<"list">>.  A cell of the table is a text: a sequence   *)
(* of one-character strings, so that str.lower, str.strip and              *)
(* str.contains are computed character by character.  A function that can *)
(* raise returns <<"ok", value>> or <<"raise", exception name>>.           *)
(***************************************************************************)
EXTENDS Integers, Sequences, FiniteSets, TLC

VARIABLES
    stored_data,      \* dcc.Store 'stored-data'
    custom_style,     \* dcc.Store 'custom-style'
    controls,         \* the five style controls (style-node-color ... style-font-size)
    tab,              \* dcc.Tabs 'tabs'
    selected_env,     \* dcc.Input 'env-filter'
    sankey_traits,    \* dcc.Checklist 'sankey-traits'
    network_traits,   \* dcc.Checklist 'network-traits'
    heatmap_traits,   \* dcc.Checklist 'heatmap-traits'
    scale,            \* dcc.Dropdown 'heatmap-colorscale'
    tabs_content,     \* html.Div 'tabs-content' (what is on display)
    output_preview,   \* html.Div 'output-preview'
    saved,            \* the style file save_style last served, kept by the user
    last,             \* the last user action: its input, the callbacks it ran, their outcome
    fn                \* call and return of a function applied on its own

vars == <<stored_data, custom_style, controls, tab, selected_env, sankey_traits,
          network_traits, heatmap_traits, scale, tabs_content, output_preview,
          saved, last, fn>>

(***************************************************************************)
(* Bounds of the model.                                                    *)
(***************************************************************************)
MaxRows == 2          \* rows of a table drawn for a pure function
MaxTraits == 2        \* length of a trait list drawn for filter_by_traits

(***************************************************************************)
(* Python values and text.                                                 *)
(***************************************************************************)
None == <<"None">>
Str(s) == <<"str", s>>
Num(n) == <<"num", n>>
Dict(f) == <<"dict", f>>
Ok(v) == <<"ok", v>>
Raise(e) == <<"raise", e>>
IsOk(r) == r[1] = "ok"

UpperCase == <<"A","B","C","D","E","F","G","H","I","J","K","L","M",
               "N","O","P","Q","R","S","T","U","V","W","X","Y","Z">>
LowerCase == <<"a","b","c","d","e","f","g","h","i","j","k","l","m",
               "n","o","p","q","r","s","t","u","v","w","x","y","z">>

RECURSIVE case_table(_)
case_table(i) ==
    IF i > Len(UpperCase) THEN <<>>
    ELSE (UpperCase[i] :> LowerCase[i]) @@ case_table(i + 1)
LowerOf == case_table(1)

lower_char(c) == IF c \in DOMAIN LowerOf THEN LowerOf[c] ELSE c

\* str.lower()
RECURSIVE str_lower(_)
str_lower(s) == IF s = <<>> THEN <<>> ELSE <<lower_char(Head(s))>> \o str_lower(Tail(s))

\* str.strip(): leading and trailing whitespace removed
RECURSIVE lstrip(_)
lstrip(s) == IF s # <<>> /\ Head(s) = " " THEN lstrip(Tail(s)) ELSE s
RECURSIVE rstrip(_)
rstrip(s) == IF s # <<>> /\ s[Len(s)] = " " THEN rstrip(SubSeq(s, 1, Len(s) - 1)) ELSE s
str_strip(s) == rstrip(lstrip(s))

\* Series.str.contains(pat, case=False) on one cell, for a pattern without
\* regular-expression metacharacters (letters, digits, blanks)
str_contains(s, pat) ==
    LET ls == str_lower(s)
        lpat == str_lower(pat)
    IN \E i \in 0..(Len(ls) - Len(lpat)) : SubSeq(ls, i + 1, i + Len(lpat)) = lpat

no == <<"n","o">>

Traits == <<"ARGs", "Virulence", "T4SS", "MGEs">>
TraitSet == {Traits[i] : i \in 1..Len(Traits)}

(***************************************************************************)
(* pandas.DataFrame: its columns and its rows, a row being a function from *)
(* the columns to text.                                                    *)
(***************************************************************************)
DataFrame(columns, rows) == [columns |-> columns, rows |-> rows]
EmptyFrame == DataFrame({}, <<>>)
df_empty(df) == df.rows = <<>> \/ df.columns = {}

\* df[c].tolist()
RECURSIVE column_of(_, _)
column_of(rows, c) ==
    IF rows = <<>> THEN <<>> ELSE <<Head(rows)[c]>> \o column_of(Tail(rows), c)
Column(df, c) == column_of(df.rows, c)

\* pd.unique: first occurrences, in order
RECURSIVE unique(_)
unique(s) ==
    IF s = <<>> THEN <<>>
    ELSE LET init == unique(SubSeq(s, 1, Len(s) - 1))
             x == s[Len(s)]
         IN IF \E i \in 1..Len(init) : init[i] = x THEN init ELSE Append(init, x)

Range(s) == {s[i] : i \in 1..Len(s)}
IndexOf(s, x) == CHOOSE i \in 1..Len(s) : s[i] = x

(***************************************************************************)
(* filter_by_traits (lines 138-141): for each trait in turn, the rows      *)
(* whose cell in that column, lowered, differs from 'no'.  df[t] raises    *)
(* KeyError when the column is absent, also on a table without rows.       *)
(***************************************************************************)
\* keep_row without the .str.lower(): only the exact text "no" is negative
keep_row_exact(row, t) == row[t] # no
keep_row(row, t) == str_lower(row[t]) # no

RECURSIVE filter_by_traits(_, _)
filter_by_traits(df, traits) ==
    IF traits = <<>> THEN Ok(df)
    ELSE LET t == Head(traits)
         IN IF t \notin df.columns THEN Raise("KeyError")
            ELSE LET Keep(row) == keep_row(row, t)
                 IN filter_by_traits(DataFrame(df.columns, SelectSeq(df.rows, Keep)),
                                     Tail(traits))

(***************************************************************************)
(* style[key] on the content of the style store (lines 157-170, 196-202,   *)
(* 217): TypeError when the store holds no dict, KeyError when the key is  *)
(* missing.                                                                *)
(***************************************************************************)
StyleFields == <<"node_color", "edge_color", "node_size", "bg_color", "font_size">>
StyleFieldSet == Range(StyleFields)

RECURSIVE style_items(_, _)
style_items(style, keys) ==
    IF style[1] # "dict" THEN Raise("TypeError")
    ELSE IF keys = <<>> THEN Ok(<<>>)
    ELSE IF Head(keys) \notin DOMAIN style[2] THEN Raise("KeyError")
    ELSE LET rest == style_items(style, Tail(keys))
         IN IF IsOk(rest) THEN Ok(<<style[2][Head(keys)]>> \o rest[2]) ELSE rest

EmptyFigure == <<"Figure">>

(***************************************************************************)
(* create_sankey (lines 143-171).                                          *)
(***************************************************************************)
\* Series.map(label_map), label_map giving each label its index from 0
RECURSIVE map_labels(_, _)
map_labels(column, labels) ==
    IF column = <<>> THEN <<>>
    ELSE <<IndexOf(labels, Head(column)) - 1>> \o map_labels(Tail(column), labels)

RECURSIVE ones(_)
ones(n) == IF n = 0 THEN <<>> ELSE <<1>> \o ones(n - 1)

create_sankey(df, style) ==
    IF df_empty(df) THEN Ok(EmptyFigure)
    ELSE IF "Host_Genome" \notin df.columns \/ "Plasmid_ID" \notin df.columns
            \/ "Environment" \notin df.columns
    THEN Raise("KeyError")
    ELSE LET labels == unique(Column(df, "Host_Genome") \o Column(df, "Plasmid_ID")
                              \o Column(df, "Environment"))
             source == map_labels(Column(df, "Host_Genome"), labels)
             target == map_labels(Column(df, "Plasmid_ID"), labels)
             env_source == map_labels(Column(df, "Plasmid_ID"), labels)
             env_target == map_labels(Column(df, "Environment"), labels)
             link_source == source \o env_source
             link_target == target \o env_target
             st == style_items(style, <<"node_size", "node_color", "edge_color",
                                        "font_size", "bg_color">>)
         IN IF ~IsOk(st) THEN st
            ELSE Ok(<<"Sankey",
                      [label |-> labels, source |-> link_source, target |-> link_target,
                       value |-> ones(Len(link_source)),
                       thickness |-> st[2][1], node_color |-> st[2][2],
                       link_color |-> st[2][3], font_size |-> st[2][4],
                       paper_bgcolor |-> st[2][5]]>>)

(***************************************************************************)
(* networkx.Graph as create_network uses it (lines 176-180): the nodes in  *)
(* insertion order and the adjacency of each node.                         *)
(***************************************************************************)
EmptyGraph == [nodes |-> <<>>, adj |-> <<>>]

add_node(G, n) ==
    IF n \in Range(G.nodes) THEN G
    ELSE [nodes |-> Append(G.nodes, n), adj |-> Append(G.adj, {})]

add_edge(G, u, v) ==
    LET H == add_node(add_node(G, u), v)
        iu == IndexOf(H.nodes, u)
        iv == IndexOf(H.nodes, v)
    IN [H EXCEPT !.adj = [i \in 1..Len(H.adj) |->
                             IF i = iu /\ i = iv THEN H.adj[i] \cup {u}
                             ELSE IF i = iu THEN H.adj[i] \cup {v}
                             ELSE IF i = iv THEN H.adj[i] \cup {u}
                             ELSE H.adj[i]]]

RECURSIVE add_rows(_, _)
add_rows(G, rows) ==
    IF rows = <<>> THEN G
    ELSE LET row == Head(rows)
         IN add_rows(add_edge(add_node(add_node(G, row["Plasmid_ID"]), row["Environment"]),
                              row["Plasmid_ID"], row["Environment"]),
                     Tail(rows))

\* G.edges(): every edge once, as the set of its ends
graph_edges(G) ==
    {{G.nodes[i], v} : <<i, v>> \in {p \in (1..Len(G.nodes)) \X Range(G.nodes) : p[2] \in G.adj[p[1]]}}

(***************************************************************************)
(* create_network (lines 173-206).  The positions spring_layout computes   *)
(* are a function of the graph and the fixed seed; the figure is modelled  *)
(* by the node texts and the segments drawn.                               *)
(***************************************************************************)
create_network(df, style) ==
    IF df_empty(df) THEN Ok(EmptyFigure)
    ELSE IF "Plasmid_ID" \notin df.columns \/ "Environment" \notin df.columns
    THEN Raise("KeyError")
    ELSE LET G == add_rows(EmptyGraph, df.rows)
             st == style_items(style, <<"edge_color", "node_size", "node_color",
                                        "bg_color", "font_size">>)
         IN IF ~IsOk(st) THEN st
            ELSE Ok(<<"Network",
                      [node_text |-> G.nodes, edges |-> graph_edges(G),
                       line_color |-> st[2][1], marker_size |-> st[2][2],
                       marker_color |-> st[2][3], paper_bgcolor |-> st[2][4],
                       font_size |-> st[2][5]]>>)

(***************************************************************************)
(* create_heatmap (lines 208-219): melt, Binary, pivot.  melt raises       *)
(* KeyError when an id or value column is absent; pivot raises ValueError  *)
(* when an (index, column) pair occurs twice.                              *)
(***************************************************************************)
binary(x) == IF str_lower(x) # no THEN 1 ELSE 0

\* the rows of one trait: the element, the trait, its value and the Binary column
RECURSIVE melt_trait(_, _)
melt_trait(rows, t) ==
    IF rows = <<>> THEN <<>>
    ELSE <<[Plasmid_ID |-> Head(rows)["Plasmid_ID"], Trait |-> t,
            Presence |-> Head(rows)[t], Binary |-> binary(Head(rows)[t])]>>
         \o melt_trait(Tail(rows), t)

RECURSIVE melt(_, _)
melt(rows, value_vars) ==
    IF value_vars = <<>> THEN <<>>
    ELSE melt_trait(rows, Head(value_vars)) \o melt(rows, Tail(value_vars))

pivot(melted) ==
    IF \E i, j \in 1..Len(melted) :
          i # j /\ melted[i].Plasmid_ID = melted[j].Plasmid_ID
                /\ melted[i].Trait = melted[j].Trait
    THEN Raise("ValueError")
    ELSE LET index == {melted[i].Plasmid_ID : i \in 1..Len(melted)}
             columns == {melted[i].Trait : i \in 1..Len(melted)}
             cell(p, t) ==
                 IF \E i \in 1..Len(melted) : melted[i].Plasmid_ID = p /\ melted[i].Trait = t
                 THEN melted[CHOOSE i \in 1..Len(melted) :
                                 melted[i].Plasmid_ID = p /\ melted[i].Trait = t].Binary
                 ELSE 0      \* fillna(0)
         IN Ok([index |-> index, columns |-> columns,
                z |-> [p \in index |-> [t \in columns |-> cell(p, t)]]])

create_heatmap(df, colorscale, style) ==
    IF df_empty(df) THEN Ok(EmptyFigure)
    ELSE IF "Plasmid_ID" \notin df.columns \/ ~(TraitSet \subseteq df.columns)
    THEN Raise("KeyError")
    ELSE LET df_melted == melt(df.rows, Traits)
             heat_df == pivot(df_melted)
             st == style_items(style, <<"font_size", "bg_color">>)
         IN IF ~IsOk(heat_df) THEN heat_df
            ELSE IF ~IsOk(st) THEN st
            ELSE Ok(<<"Heatmap",
                      [index |-> heat_df[2].index, columns |-> heat_df[2].columns,
                       z |-> heat_df[2].z, color_continuous_scale |-> colorscale,
                       font_size |-> st[2][1], paper_bgcolor |-> st[2][2]]>>)

(***************************************************************************)
(* An uploaded file as dcc.Upload delivers it: the data URL                *)
(* "<content type>,<base64 of the file>".  contents.split(',') gives its   *)
(* parts; the base64 string is <<"b64", bytes>>, the bytes are             *)
(* <<"utf8", text>> or <<"binary">> (no UTF-8), and a text is              *)
(* <<"csv", header, rows>> or <<"json", tokens>>.                          *)
(***************************************************************************)
Contents(bytes) == <<"data:;base64", <<"b64", bytes>> >>
split(contents) == IF Len(contents) = 2 THEN Ok(contents) ELSE Raise("ValueError")
b64decode(content_string) ==
    IF content_string[1] = "b64" THEN Ok(content_string[2]) ELSE Raise("binascii.Error")
decode_utf8(bytes) ==
    IF bytes[1] = "utf8" THEN Ok(bytes[2]) ELSE Raise("UnicodeDecodeError")

Utf8(text) == <<"utf8", text>>
Csv(header, rows) == <<"csv", header, rows>>
Json(tokens) == <<"json", tokens>>

(***************************************************************************)
(* pd.read_csv: the first line names the columns.  No line at all raises   *)
(* EmptyDataError, a line with more fields than the header ParserError.    *)
(* A JSON text read as CSV is a header without rows.                       *)
(***************************************************************************)
RECURSIVE zip_row(_, _)
zip_row(header, line) ==
    IF header = <<>> THEN <<>>
    ELSE (Head(header) :> Head(line)) @@ zip_row(Tail(header), Tail(line))

RECURSIVE zip_rows(_, _)
zip_rows(header, lines) ==
    IF lines = <<>> THEN <<>>
    ELSE <<zip_row(header, Head(lines))>> \o zip_rows(header, Tail(lines))

read_csv(text) ==
    IF text[1] = "json" THEN Ok(DataFrame({"{"}, <<>>))
    ELSE LET header == text[2]
             lines == text[3]
         IN IF header = <<>> THEN Raise("EmptyDataError")
            ELSE IF \E i \in 1..Len(lines) : Len(lines[i]) > Len(header)
            THEN Raise("ParserError")
            ELSE Ok(DataFrame(Range(header), zip_rows(header, lines)))

(***************************************************************************)
(* parse_contents (lines 133-136).                                         *)
(***************************************************************************)
parse_contents(contents) ==
    LET parts == split(contents)
        decoded == b64decode(parts[2][2])
        text == decode_utf8(decoded[2])
    IN IF ~IsOk(parts) THEN parts
       ELSE IF ~IsOk(decoded) THEN decoded
       ELSE IF ~IsOk(text) THEN text
       ELSE read_csv(text[2])

\* df.to_dict('records') and pd.DataFrame(data)
to_dict_records(df) == <<"records", df.rows>>
frame_of(data) ==
    IF data = None THEN EmptyFrame ELSE DataFrame(DOMAIN data[2][1], data[2])

(***************************************************************************)
(* update_output (lines 226-241): <<output-preview, stored-data>>.         *)
(***************************************************************************)
Div(text) == <<"Div", text>>
Graph(figure) == <<"Graph", figure>>

\* update_output without the 'Plasmid_ID' not in df.columns test of line 232
update_output_any_columns(contents) ==
    IF contents # None
    THEN LET df == parse_contents(contents)
         IN IF ~IsOk(df) THEN <<<<"Div", "Error reading file", df[2]>>, None>>
            ELSE IF df_empty(df[2])
            THEN <<Div("Uploaded file is invalid or missing required columns."), None>>
            ELSE <<<<"DataTable", df[2]>>, to_dict_records(df[2])>>
    ELSE <<Div("Please upload a CSV file to begin."), None>>
update_output(contents) ==
    IF contents # None
    THEN LET df == parse_contents(contents)
         IN IF ~IsOk(df) THEN <<<<"Div", "Error reading file", df[2]>>, None>>
            ELSE IF df_empty(df[2]) \/ "Plasmid_ID" \notin df[2].columns
            THEN <<Div("Uploaded file is invalid or missing required columns."), None>>
            ELSE <<<<"DataTable", df[2]>>, to_dict_records(df[2])>>
    ELSE <<Div("Please upload a CSV file to begin."), None>>

(***************************************************************************)
(* render_content (lines 254-265).  The trait lists are the checklists'    *)
(* values.                                                                 *)
(***************************************************************************)
\* env_filter with case=True and without the strip()
env_filter_case(df, env) ==
    IF env = None \/ env = <<>> THEN Ok(df)
    ELSE IF "Environment" \notin df.columns THEN Raise("KeyError")
    ELSE LET Keep(row) ==
                 \E i \in 1..(Len(row["Environment"]) + 1), j \in 0..Len(row["Environment"]) :
                     SubSeq(row["Environment"], i, j) = env
         IN Ok(DataFrame(df.columns, SelectSeq(df.rows, Keep)))
env_filter(df, env) ==
    IF env = None \/ env = <<>> THEN Ok(df)
    ELSE IF "Environment" \notin df.columns THEN Raise("KeyError")
    ELSE LET Keep(row) == str_contains(row["Environment"], str_strip(env))
         IN Ok(DataFrame(df.columns, SelectSeq(df.rows, Keep)))

build(which, df, colorscale, style) ==
    CASE which = "sankey" -> create_sankey(df, style)
      [] which = "network" -> create_network(df, style)
      [] which = "heatmap" -> create_heatmap(df, colorscale, style)

render_content(t, style, data, env, s_traits, n_traits, h_traits, colorscale) ==
    IF data = None THEN Ok(Div("Please upload a dataset."))
    ELSE LET df == env_filter(frame_of(data), env)
             traits == CASE t = "sankey" -> s_traits
                         [] t = "network" -> n_traits
                         [] t = "heatmap" -> h_traits
             filtered == filter_by_traits(df[2], traits)
             figure == build(t, filtered[2], colorscale, style)
         IN IF ~IsOk(df) THEN df
            ELSE IF ~IsOk(filtered) THEN filtered
            ELSE IF ~IsOk(figure) THEN figure
            ELSE Ok(Graph(figure[2]))

(***************************************************************************)
(* update_style (lines 275-282).                                           *)
(***************************************************************************)
update_style(node_color, edge_color, node_size, bg_color, font_size) ==
    Dict([node_color |-> node_color, edge_color |-> edge_color, node_size |-> node_size,
          bg_color |-> bg_color, font_size |-> font_size])

(***************************************************************************)
(* download_plot (lines 294-308).  write_ok says whether importing kaleido *)
(* and pio.write_image succeed.                                            *)
(***************************************************************************)
\* download_plot applying the environment filter of the view to the export
download_plot_filtered(t, fmt, data, colorscale, style, write_ok) ==
    LET df == env_filter(frame_of(data), selected_env)
        fig == build(t, df[2], colorscale, style)
    IN IF ~IsOk(df) THEN df
       ELSE IF ~IsOk(fig) THEN fig
       ELSE IF write_ok THEN Ok(<<"send_file", fmt, fig[2]>>)
       ELSE Ok(<<"send_string", "error.txt", "Error: ">>)
download_plot(t, fmt, data, colorscale, style, write_ok) ==
    LET df == frame_of(data)
        fig == build(t, df, colorscale, style)
    IN IF ~IsOk(fig) THEN fig
       ELSE IF write_ok THEN Ok(<<"send_file", fmt, fig[2]>>)
       ELSE Ok(<<"send_string", "error.txt", "Error: ">>)

(***************************************************************************)
(* json.dump and json.loads on the values a style file holds: an object of *)
(* scalars, a scalar, or the empty list.  A JSON text is its sequence of   *)
(* tokens; the members of an object are written in key order.              *)
(***************************************************************************)
Tok(c) == <<c>>
KeyOrder == StyleFields \o <<"extra">>

json_scalar(v) ==
    CASE v[1] = "str" -> v
      [] v[1] = "num" -> v
      [] v[1] = "None" -> Tok("null")

RECURSIVE json_members(_, _)
json_members(f, keys) ==
    IF keys = <<>> THEN <<>>
    ELSE <<Str(Head(keys)), Tok(":"), json_scalar(f[Head(keys)])>>
         \o (IF Tail(keys) = <<>> THEN <<>> ELSE <<Tok(",")>>)
         \o json_members(f, Tail(keys))

\* json.dump that leaves font_size out of the object
json_dumps_no_font(v) ==
    CASE v[1] = "dict" ->
            LET InDict(k) == k \in DOMAIN v[2] /\ k # "font_size"
            IN <<Tok("{")>> \o json_members(v[2], SelectSeq(KeyOrder, InDict)) \o <<Tok("}")>>
      [] v[1] = "list" -> <<Tok("["), Tok("]")>>
      [] OTHER -> <<json_scalar(v)>>
json_dumps(v) ==
    CASE v[1] = "dict" ->
            LET InDict(k) == k \in DOMAIN v[2]
            IN <<Tok("{")>> \o json_members(v[2], SelectSeq(KeyOrder, InDict)) \o <<Tok("}")>>
      [] v[1] = "list" -> <<Tok("["), Tok("]")>>
      [] OTHER -> <<json_scalar(v)>>

is_scalar_token(tok) == tok[1] \in {"str", "num", "null"}
scalar_of(tok) == IF tok[1] = "null" THEN None ELSE tok

\* the members of an object after "{" or ",": acc holds the members read
RECURSIVE parse_members(_, _)
parse_members(toks, acc) ==
    IF Len(toks) < 4 THEN Raise("JSONDecodeError")
    ELSE IF ~(toks[1][1] = "str" /\ toks[2] = Tok(":") /\ is_scalar_token(toks[3]))
    THEN Raise("JSONDecodeError")
    ELSE LET key == toks[1][2]
             put == [k \in DOMAIN acc \cup {key} |->
                        IF k = key THEN scalar_of(toks[3]) ELSE acc[k]]
         IN IF toks[4] = Tok("}")
            THEN IF Len(toks) = 4 THEN Ok(Dict(put)) ELSE Raise("JSONDecodeError")
            ELSE IF toks[4] = Tok(",") THEN parse_members(SubSeq(toks, 5, Len(toks)), put)
            ELSE Raise("JSONDecodeError")

json_loads(text) ==
    IF text[1] # "json" THEN Raise("JSONDecodeError")
    ELSE LET toks == text[2]
         IN IF toks = <<>> THEN Raise("JSONDecodeError")
            ELSE IF Len(toks) = 1 /\ is_scalar_token(toks[1]) THEN Ok(scalar_of(toks[1]))
            ELSE IF toks = <<Tok("["), Tok("]")>> THEN Ok(<<"list">>)
            ELSE IF toks = <<Tok("{"), Tok("}")>> THEN Ok(Dict(<<>>))
            ELSE IF toks[1] = Tok("{") THEN parse_members(Tail(toks), <<>>)
            ELSE Raise("JSONDecodeError")

(***************************************************************************)
(* save_style (lines 316-320): the file served.                            *)
(***************************************************************************)
save_style(style) == Utf8(Json(json_dumps(style)))

(***************************************************************************)
(* load_style (lines 328-336).  The split and the base64 decoding are      *)
(* outside the try block.                                                  *)
(***************************************************************************)
\* load_style that merges the parsed object into the stored StyleConfig
load_style_merge(contents, current) ==
    IF contents # None
    THEN LET parts == split(contents)
             decoded == b64decode(parts[2][2])
             text == decode_utf8(decoded[2])
             loaded == json_loads(text[2])
         IN IF ~IsOk(parts) THEN parts
            ELSE IF ~IsOk(decoded) THEN decoded
            ELSE IF ~IsOk(text) THEN Ok(current)
            ELSE IF ~IsOk(loaded) THEN Ok(current)
            ELSE IF loaded[2][1] = "dict" /\ current[1] = "dict"
            THEN Ok(Dict(loaded[2][2] @@ current[2]))
            ELSE loaded
    ELSE Ok(current)
load_style(contents, current) ==
    IF contents # None
    THEN LET parts == split(contents)
             decoded == b64decode(parts[2][2])
             text == decode_utf8(decoded[2])
             loaded == json_loads(text[2])
         IN IF ~IsOk(parts) THEN parts
            ELSE IF ~IsOk(decoded) THEN decoded
            ELSE IF ~IsOk(text) THEN Ok(current)
            ELSE IF ~IsOk(loaded) THEN Ok(current)
            ELSE loaded
    ELSE Ok(current)

(***************************************************************************)
(* The inputs of the model.                                                *)
(***************************************************************************)
P1 == <<"P","1">>
P2 == <<"P","2">>
H1 == <<"H","1">>
Soil == <<"S","o","i","l">>
Water == <<"W","a","t","e","r">>
yes == <<"y","e","s">>
No == <<"N","o">>

FullColumns == <<"Plasmid_ID", "Host_Genome", "Environment">> \o Traits

Row(p, h, e, a, v, t, m) ==
    [Plasmid_ID |-> p, Host_Genome |-> h, Environment |-> e,
     ARGs |-> a, Virulence |-> v, T4SS |-> t, MGEs |-> m]

\* the CSV file of a table: the header and one line of cells per row
CsvOf(header, rows) ==
    Csv(header, [i \in 1..Len(rows) |-> [j \in 1..Len(header) |-> rows[i][header[j]]]])

Without(c) == LET Other(x) == x # c IN SelectSeq(FullColumns, Other)

\* the two rows of the scenario of the specification, and an element found
\* in two environments
Scenario == <<Row(P1, H1, Soil, yes, no, no, no), Row(P2, H1, Water, no, no, No, yes)>>
Shared == <<Row(P1, H1, Soil, yes, no, no, no), Row(P1, H1, Water, No, no, yes, no)>>

Headers == {Without("Plasmid_ID"), Without("Environment"), Without("Host_Genome"),
            Without("ARGs")}

DataFiles ==
    {Utf8(CsvOf(FullColumns, rows)) : rows \in {<<>>, Scenario, Shared}}
    \cup {Utf8(CsvOf(h, Scenario)) : h \in Headers}
    \cup {<<"binary">>,                                    \* not UTF-8
          Utf8(Csv(<<>>, <<>>)),                            \* an empty file
          Utf8(Csv(<<"Plasmid_ID">>, <<<<P1, Soil>>>>))}    \* a line longer than the header

TabChoices == {"sankey", "network", "heatmap"}
EnvChoices == {<<>>, <<"s","o","i","l"," ">>}
TraitChoices == {"ARGs"}
ScaleChoices == {"Blues", "Viridis"}
FormatChoices == {"svg", "png"}

DefaultControls ==
    [node_color |-> Str("dodgerblue"), edge_color |-> Str("gray"), node_size |-> Num(12),
     bg_color |-> Str("white"), font_size |-> Num(14)]

ControlChoices ==
    [node_color |-> {Str("dodgerblue"), Str("red")}, edge_color |-> {Str("gray")},
     node_size |-> {Num(12), Num(20)}, bg_color |-> {Str("white")},
     font_size |-> {Num(14)}]

\* style files: objects with some of the fields, and texts that are no object
StyleObject(keys) ==
    Dict([k \in keys |->
            CASE k = "node_color" -> Str("green") [] k = "edge_color" -> Str("black")
              [] k = "node_size" -> Num(20) [] k = "bg_color" -> None
              [] k = "font_size" -> Num(10) [] k = "extra" -> Str("x")])

StyleFiles ==
    {Utf8(Json(json_dumps(StyleObject(keys)))) :
        keys \in {{}, {"node_color"}, StyleFieldSet \ {"font_size"}, StyleFieldSet,
                  StyleFieldSet \cup {"extra"}}}
    \cup {<<"binary">>,
          Utf8(Json(<<Tok("{"), Str("node_color"), Tok(":")>>)),   \* truncated
          Utf8(Json(<<Tok("["), Tok("]")>>)),
          Utf8(CsvOf(FullColumns, Scenario))}

\* the list a checklist holds, in the order of its options
TraitList(S) == LET In(t) == t \in S IN SelectSeq(Traits, In)

(***************************************************************************)
(* The state after the page has loaded: update_output(None), update_style  *)
(* on the controls' initial values and render_content have run (lines      *)
(* 45-52, 62-72, 83-102); the other callbacks prevent the initial call.    *)
(***************************************************************************)
Outcome(action, input, ran, result, download) ==
    [action |-> action, input |-> input, ran |-> ran,
     exc |-> IF IsOk(result) THEN "none" ELSE result[2],
     download |-> download, prev_style |-> custom_style]

ControlStyle(c) ==
    update_style(c.node_color, c.edge_color, c.node_size, c.bg_color, c.font_size)

AppInit ==
    /\ stored_data = update_output(None)[2]
    /\ output_preview = update_output(None)[1]
    /\ controls = DefaultControls
    /\ custom_style = ControlStyle(DefaultControls)
    /\ tab = "sankey"
    /\ selected_env = None
    /\ sankey_traits = {}
    /\ network_traits = {}
    /\ heatmap_traits = {}
    /\ scale = "Blues"
    /\ tabs_content = render_content("sankey", ControlStyle(DefaultControls),
                                     update_output(None)[2], None, <<>>, <<>>, <<>>,
                                     "Blues")[2]
    /\ saved = None
    /\ last = [action |-> "load", input |-> None,
               ran |-> <<"update_output", "update_style", "render_content">>,
               exc |-> "none", download |-> None,
               prev_style |-> ControlStyle(DefaultControls)]

Init == AppInit /\ fn = None

(***************************************************************************)
(* The callbacks.  A callback that raises leaves its Output as it was.     *)
(***************************************************************************)
\* render_content on the inputs as the action leaves them; the Dataset is a State
Render(t, style, env, st, nt, ht, sc) ==
    render_content(t, style, stored_data, env, TraitList(st), TraitList(nt),
                   TraitList(ht), sc)

Show(r) == IF IsOk(r) THEN r[2] ELSE tabs_content

\* a file dropped on 'upload-data': update_output; no Input of render_content changes
UploadData(file) ==
    LET out == update_output(Contents(file))
    IN /\ output_preview' = out[1]
       /\ stored_data' = out[2]
       /\ last' = Outcome("upload", Contents(file), <<"update_output">>, Ok(out), None)
       /\ UNCHANGED <<custom_style, controls, tab, selected_env, sankey_traits,
                      network_traits, heatmap_traits, scale, tabs_content, saved, fn>>

SelectTab(t) ==
    LET r == Render(t, custom_style, selected_env, sankey_traits, network_traits,
                    heatmap_traits, scale)
    IN /\ t # tab
       /\ tab' = t
       /\ tabs_content' = Show(r)
       /\ last' = Outcome("view", None, <<"render_content">>, r, None)
       /\ UNCHANGED <<stored_data, custom_style, controls, selected_env, sankey_traits,
                      network_traits, heatmap_traits, scale, output_preview, saved, fn>>

SetEnvFilter(env) ==
    LET r == Render(tab, custom_style, env, sankey_traits, network_traits,
                    heatmap_traits, scale)
    IN /\ env # selected_env
       /\ selected_env' = env
       /\ tabs_content' = Show(r)
       /\ last' = Outcome("view", None, <<"render_content">>, r, None)
       /\ UNCHANGED <<stored_data, custom_style, controls, tab, sankey_traits,
                      network_traits, heatmap_traits, scale, output_preview, saved, fn>>

Toggle(S, t) == IF t \in S THEN S \ {t} ELSE S \cup {t}

ToggleTrait(list, t) ==
    LET st == IF list = "sankey" THEN Toggle(sankey_traits, t) ELSE sankey_traits
        nt == IF list = "network" THEN Toggle(network_traits, t) ELSE network_traits
        ht == IF list = "heatmap" THEN Toggle(heatmap_traits, t) ELSE heatmap_traits
        r == Render(tab, custom_style, selected_env, st, nt, ht, scale)
    IN /\ sankey_traits' = st
       /\ network_traits' = nt
       /\ heatmap_traits' = ht
       /\ tabs_content' = Show(r)
       /\ last' = Outcome("view", None, <<"render_content">>, r, None)
       /\ UNCHANGED <<stored_data, custom_style, controls, tab, selected_env, scale,
                      output_preview, saved, fn>>

SelectScale(sc) ==
    LET r == Render(tab, custom_style, selected_env, sankey_traits, network_traits,
                    heatmap_traits, sc)
    IN /\ sc # scale
       /\ scale' = sc
       /\ tabs_content' = Show(r)
       /\ last' = Outcome("view", None, <<"render_content">>, r, None)
       /\ UNCHANGED <<stored_data, custom_style, controls, tab, selected_env,
                      sankey_traits, network_traits, heatmap_traits, output_preview,
                      saved, fn>>

\* a style control moved: update_style writes the store, which is an Input
\* of render_content
ChangeStyleControl(k, v) ==
    LET c == [controls EXCEPT ![k] = v]
        style == ControlStyle(c)
        r == Render(tab, style, selected_env, sankey_traits, network_traits,
                    heatmap_traits, scale)
    IN /\ v # controls[k]
       /\ controls' = c
       /\ custom_style' = style
       /\ tabs_content' = Show(r)
       /\ last' = Outcome("control", None, <<"update_style", "render_content">>, r, None)
       /\ UNCHANGED <<stored_data, tab, selected_env, sankey_traits, network_traits,
                      heatmap_traits, scale, output_preview, saved, fn>>

\* 'download-btn' clicked, 'download-format' holding fmt; write_ok is the
\* outcome of the image rendering step
ClickDownload(fmt, write_ok) ==
    LET r == download_plot(tab, fmt, stored_data, scale, custom_style, write_ok)
    IN /\ last' = Outcome("download", <<"click", fmt, write_ok>>, <<"download_plot">>, r,
                          IF IsOk(r) THEN r[2] ELSE None)
       /\ UNCHANGED <<stored_data, custom_style, controls, tab, selected_env,
                      sankey_traits, network_traits, heatmap_traits, scale, tabs_content,
                      output_preview, saved, fn>>

\* 'save-style-btn' clicked: the file served stays with the user
ClickSaveStyle ==
    /\ saved' = <<"saved", save_style(custom_style), custom_style>>
    /\ last' = Outcome("save", None, <<"save_style">>, Ok(None),
                       <<"send_file", "json", save_style(custom_style)>>)
    /\ UNCHANGED <<stored_data, custom_style, controls, tab, selected_env, sankey_traits,
                   network_traits, heatmap_traits, scale, tabs_content, output_preview, fn>>

\* a file dropped on 'upload-style': load_style writes the store, which is
\* an Input of render_content
UploadStyle(file) ==
    LET loaded == load_style(Contents(file), custom_style)
        style == IF IsOk(loaded) THEN loaded[2] ELSE custom_style
        r == IF IsOk(loaded)
             THEN Render(tab, style, selected_env, sankey_traits, network_traits,
                         heatmap_traits, scale)
             ELSE loaded
    IN /\ custom_style' = style
       /\ tabs_content' = Show(r)
       /\ last' = Outcome("upload_style", Contents(file),
                          IF IsOk(loaded) THEN <<"load_style", "render_content">>
                          ELSE <<"load_style">>, r, None)
       /\ UNCHANGED <<stored_data, controls, tab, selected_env, sankey_traits,
                      network_traits, heatmap_traits, scale, output_preview, saved, fn>>

\* the files the user can drop on 'upload-style'
SavedFiles == IF saved = None THEN {} ELSE {saved[2]}

(***************************************************************************)
(* Spec: the Dataset and the views (upload, tab, filters, color scale,     *)
(* export).                                                                *)
(***************************************************************************)
Next ==
    \/ \E file \in DataFiles : UploadData(file)
    \/ \E t \in TabChoices : SelectTab(t)
    \/ \E env \in EnvChoices : SetEnvFilter(env)
    \/ \E list \in TabChoices, t \in TraitChoices : ToggleTrait(list, t)
    \/ \E sc \in ScaleChoices : SelectScale(sc)
    \/ \E fmt \in FormatChoices, write_ok \in BOOLEAN : ClickDownload(fmt, write_ok)

Spec == Init /\ [][Next]_vars

(***************************************************************************)
(* SpecStyle: the style store (controls, export, import), with a Dataset   *)
(* on display.                                                             *)
(***************************************************************************)
NextStyle ==
    \/ UploadData(Utf8(CsvOf(FullColumns, Scenario)))
    \/ \E k \in {"node_color", "node_size"} :
          \E v \in ControlChoices[k] : ChangeStyleControl(k, v)
    \/ ClickSaveStyle
    \/ \E file \in StyleFiles \cup SavedFiles : UploadStyle(file)

SpecStyle == Init /\ [][NextStyle]_vars

(***************************************************************************)
(* The functions applied on their own: the initial state holds a call with *)
(* arguments drawn from bounded sets, the action returns its result.       *)
(***************************************************************************)
SeqsUpTo(S, n) == UNION {[1..k -> S] : k \in 0..n}
Frames(RowSet) == {DataFrame(Range(FullColumns), rows) : rows \in SeqsUpTo(RowSet, MaxRows)}
Call(name, args) == <<"call", name, args>>
Return(name, args, result) == <<"return", name, args, result>>
Returned(name) == fn[1] = "return" /\ fn[2] = name
AppUnchanged ==
    UNCHANGED <<stored_data, custom_style, controls, tab, selected_env, sankey_traits,
                network_traits, heatmap_traits, scale, tabs_content, output_preview,
                saved, last>>

\* filter_by_traits on a table with every column and a list of distinct traits
FilterRows ==
    {Row(P1, H1, Soil, a, no, t, yes) :
        a \in {yes, no, No, <<"N","O">>, <<"n","o","t">>}, t \in {yes, <<"n","O">>}}
TraitLists ==
    {l \in SeqsUpTo(TraitSet, MaxTraits) : \A i, j \in 1..Len(l) : l[i] = l[j] => i = j}

InitFilter ==
    /\ AppInit
    /\ fn \in {Call("filter_by_traits", [df |-> df, traits |-> l]) :
                  df \in Frames(FilterRows), l \in TraitLists}
FilterReturn ==
    /\ fn[1] = "call" /\ fn[2] = "filter_by_traits"
    /\ fn' = Return(fn[2], fn[3], filter_by_traits(fn[3].df, fn[3].traits))
    /\ AppUnchanged
SpecFilter == InitFilter /\ [][FilterReturn]_vars

\* render_content on the network tab
NetworkRows ==
    {Row(p, H1, e, a, no, no, no) : p \in {P1, P2}, e \in {Soil, Water, P1}, a \in {yes, no}}
InitNetwork ==
    /\ AppInit
    /\ fn \in {Call("render_content",
                    [data |-> <<"records", rows>>, env |-> env, network_traits |-> nt,
                     other_traits |-> ot]) :
                  rows \in SeqsUpTo(NetworkRows, MaxRows) \ {<<>>},
                  env \in {None, <<"s","o","i","l"," ">>, <<"W","A">>},
                  nt \in {<<>>, <<"ARGs">>}, ot \in {<<>>, <<"ARGs">>}}
NetworkReturn ==
    /\ fn[1] = "call" /\ fn[2] = "render_content"
    /\ fn' = Return(fn[2], fn[3],
                    render_content("network", custom_style, fn[3].data, fn[3].env,
                                   fn[3].other_traits, fn[3].network_traits,
                                   fn[3].other_traits, scale))
    /\ AppUnchanged
SpecNetwork == InitNetwork /\ [][NetworkReturn]_vars

\* create_heatmap
HeatmapRows ==
    {Row(p, H1, e, a, v, t, m) :
        p \in {P1, P2}, e \in {Soil, Water}, a \in {yes, no, No}, v \in {yes, no},
        t \in {yes, no}, m \in {yes, no}}
InitHeatmap ==
    /\ AppInit
    /\ fn \in {Call("create_heatmap", [df |-> df]) : df \in Frames(HeatmapRows)}
HeatmapReturn ==
    /\ fn[1] = "call" /\ fn[2] = "create_heatmap"
    /\ fn' = Return(fn[2], fn[3], create_heatmap(fn[3].df, scale, custom_style))
    /\ AppUnchanged
SpecHeatmap == InitHeatmap /\ [][HeatmapReturn]_vars

(***************************************************************************)
(* What the properties are stated with, defined apart from the operators   *)
(* above.                                                                  *)
(***************************************************************************)
\* a and b are the same text up to the case of their letters
SameLetters(a, b) ==
    /\ Len(a) = Len(b)
    /\ \A i \in 1..Len(a) :
          \/ a[i] = b[i]
          \/ \E k \in 1..Len(UpperCase) : {a[i], b[i]} = {UpperCase[k], LowerCase[k]}

\* the negative marker
IsNegative(x) == SameLetters(x, <<"n","o">>)

\* s without its leading and trailing blanks
Trimmed(s) ==
    LET idx == {i \in 1..Len(s) : s[i] # " "}
    IN IF idx = {} THEN <<>>
       ELSE SubSeq(s, CHOOSE i \in idx : \A j \in idx : i <= j,
                      CHOOSE i \in idx : \A j \in idx : i >= j)

\* the label holds the filter text, up to case
PassesEnv(row, env) ==
    \/ env = None
    \/ env = <<>>
    \/ \E i \in 1..(Len(row["Environment"]) + 1), j \in 0..Len(row["Environment"]) :
          SameLetters(SubSeq(row["Environment"], i, j), Trimmed(env))

PassesTraits(row, traits) == \A i \in 1..Len(traits) : ~IsNegative(row[traits[i]])

Placeholder == <<"Div", "Please upload a dataset.">>

(***************************************************************************)
(* Properties.                                                             *)
(***************************************************************************)
Ran(cb) == \E i \in 1..Len(last.ran) : last.ran[i] = cb

\* the view on the current inputs
CurrentView ==
    render_content(tab, custom_style, stored_data, selected_env, TraitList(sankey_traits),
                   TraitList(network_traits), TraitList(heatmap_traits), scale)

\* C1: no user action ends in an unhandled exception: every callback that
\* ran in the last action returned a chart, a placeholder or a message.
C1_NoUnhandledException == last.exc = "none"

\* C2: after every user action whose callbacks returned, the content on
\* display is the view function applied to the current tab, StyleConfig,
\* Dataset, environment filter, trait selections and color scale.
C2_DisplayIsCurrentView ==
    last.exc = "none" => (IsOk(CurrentView) /\ tabs_content = CurrentView[2])

\* the style file holds a JSON object with the five StyleConfig fields
CarriesStyleConfig(contents) ==
    LET bytes == contents[2][2]
        loaded == json_loads(bytes[2])
    IN /\ bytes[1] = "utf8"
       /\ IsOk(loaded)
       /\ loaded[2][1] = "dict"
       /\ StyleFieldSet \subseteq DOMAIN loaded[2][2]

\* C3: importing a style file that is not decodable, is no JSON or lacks one
\* of the five StyleConfig fields leaves the stored StyleConfig as it was.
C3_MalformedImportIsNoOp ==
    (last.action = "upload_style" /\ ~CarriesStyleConfig(last.input))
        => custom_style = last.prev_style

IsStyleConfig(style) == style[1] = "dict" /\ DOMAIN style[2] = StyleFieldSet

\* C4: importing the file save_style served for the StyleConfig S leaves the
\* store holding S, whatever the store held before the import.
C4_StyleRoundTrip ==
    (last.action = "upload_style" /\ saved # None /\ last.input = Contents(saved[2]))
        => custom_style = saved[3]

C4_Witness ==
    /\ last.action = "upload_style"
    /\ saved # None
    /\ last.input = Contents(saved[2])
    /\ IsStyleConfig(saved[3])
    /\ last.prev_style # saved[3]
    /\ custom_style = saved[3]

\* the import parses: the bytes are UTF-8 and the text is JSON
ImportParses(contents) ==
    contents[2][2][1] = "utf8" /\ IsOk(json_loads(contents[2][2][2]))

\* C5: the style store holds the last write, whole: after a control change
\* exactly the five control values, after a successful import exactly the
\* parsed content of the file; an import that fails and every other action
\* leave it as it was.
C5_LastWriteWins ==
    /\ last.action = "control" =>
          /\ custom_style[1] = "dict"
          /\ DOMAIN custom_style[2] = StyleFieldSet
          /\ \A k \in StyleFieldSet : custom_style[2][k] = controls[k]
    /\ (last.action = "upload_style" /\ ImportParses(last.input)) =>
          custom_style = json_loads(last.input[2][2][2])[2]
    /\ (last.action = "upload_style" /\ ~ImportParses(last.input)) =>
          custom_style = last.prev_style
    /\ last.action \in {"upload", "save", "view", "download"} =>
          custom_style = last.prev_style

\* a control change after an import of other values: nothing of the imported
\* StyleConfig is left
C5_Witness ==
    /\ last.action = "control"
    /\ IsStyleConfig(last.prev_style)
    /\ Cardinality({k \in StyleFieldSet : last.prev_style[2][k] # controls[k]}) >= 3
    /\ \A k \in StyleFieldSet : custom_style[2][k] = controls[k]

\* C6: filter_by_traits(D, T) returns the rows of D, in their order, whose
\* value in every column of T is no case-insensitive match for "no"; no row
\* of the result holds the negative marker in a column of T, and for the
\* empty T the result is D.
C6_FilterByTraits ==
    Returned("filter_by_traits") =>
        LET D == fn[3].df
            T == fn[3].traits
            Passes(row) == PassesTraits(row, T)
        IN /\ IsOk(fn[4])
           /\ fn[4][2].columns = D.columns
           /\ fn[4][2].rows = SelectSeq(D.rows, Passes)
           /\ \A i \in 1..Len(fn[4][2].rows), j \in 1..Len(T) :
                 ~IsNegative(fn[4][2].rows[i][T[j]])
           /\ T = <<>> => fn[4][2] = D

\* two traits named, the first row dropped for a marker written "No" or
\* "NO", the second row kept
C6_Witness ==
    /\ Returned("filter_by_traits")
    /\ Len(fn[3].traits) = 2
    /\ Len(fn[3].df.rows) = 2
    /\ fn[3].df.rows[1]["ARGs"] \in {<<"N","o">>, <<"N","O">>}
    /\ fn[4][2].rows = <<fn[3].df.rows[2]>>

\* C7: the network view's graph has as nodes the element identifiers and the
\* environment labels of the rows that pass the environment filter and the
\* network tab's trait filter, each once, and as edges the distinct
\* element-environment pairs of those rows.
C7_NetworkOfFilteredRows ==
    Returned("render_content") =>
        LET rows == fn[3].data[2]
            pass == {i \in 1..Len(rows) : /\ PassesEnv(rows[i], fn[3].env)
                                          /\ PassesTraits(rows[i], fn[3].network_traits)}
        IN /\ IsOk(fn[4])
           /\ fn[4][2][1] = "Graph"
           /\ IF pass = {} THEN fn[4][2][2] = EmptyFigure
              ELSE LET fig == fn[4][2][2]
                   IN /\ fig[1] = "Network"
                      /\ Range(fig[2].node_text) =
                            {rows[i]["Plasmid_ID"] : i \in pass}
                            \cup {rows[i]["Environment"] : i \in pass}
                      /\ \A a, b \in 1..Len(fig[2].node_text) :
                            fig[2].node_text[a] = fig[2].node_text[b] => a = b
                      /\ fig[2].edges =
                            {{rows[i]["Plasmid_ID"], rows[i]["Environment"]} : i \in pass}

\* the scenario: (P1, Soil, ARGs=yes), (P2, Water, ARGs=no), ARGs selected on
\* the network tab only: the edge P1-Soil, neither P2 nor Water
C7_Witness ==
    /\ Returned("render_content")
    /\ fn[3].data[2] = <<Row(P1, H1, Soil, yes, no, no, no), Row(P2, H1, Water, no, no, no, no)>>
    /\ fn[3].network_traits = <<"ARGs">>
    /\ fn[3].other_traits = <<>>
    /\ fn[3].env = None
    /\ fn[4][2][2][2].node_text = <<P1, Soil>>
    /\ fn[4][2][2][2].edges = {{P1, Soil}}

\* C8: for every non-empty table create_heatmap returns a grid with one row
\* per distinct element, one column per trait, each cell 1 when the
\* element's value of the trait is no case-insensitive match for "no" and 0
\* when it is.
C8_HeatmapGrid ==
    Returned("create_heatmap") /\ ~df_empty(fn[3].df) =>
        LET rows == fn[3].df.rows
        IN /\ IsOk(fn[4])
           /\ fn[4][2][1] = "Heatmap"
           /\ fn[4][2][2].index = {rows[i]["Plasmid_ID"] : i \in 1..Len(rows)}
           /\ fn[4][2][2].columns = TraitSet
           /\ \A i \in 1..Len(rows), t \in TraitSet :
                 fn[4][2][2].z[rows[i]["Plasmid_ID"]][t] =
                     IF IsNegative(rows[i][t]) THEN 0 ELSE 1

\* C9: the export is the view of the active tab on the stored Dataset without
\* the environment filter and without the trait selections, in the format
\* asked for; when the image rendering step fails it is the text file
\* error.txt.
C9_ExportIgnoresFilters ==
    last.action = "download" =>
        LET fmt == last.input[2]
            write_ok == last.input[3]
            view == render_content(tab, custom_style, stored_data, None, <<>>, <<>>, <<>>,
                                   scale)
        IN IF last.exc # "none"
           THEN stored_data # None /\ ~IsOk(view) /\ view[2] = last.exc
           ELSE IF ~write_ok
           THEN last.download[1] = "send_string" /\ last.download[2] = "error.txt"
           ELSE /\ last.download[1] = "send_file"
                /\ last.download[2] = fmt
                /\ last.download[3] =
                      IF stored_data = None THEN EmptyFigure ELSE view[2][2]

\* an export that differs from the chart on display, the display being current
C9_Witness ==
    /\ last.action = "download"
    /\ last.exc = "none"
    /\ last.input[3]
    /\ selected_env \notin {None, <<>>}
    /\ IsOk(CurrentView)
    /\ tabs_content = CurrentView[2]
    /\ tabs_content[1] = "Graph"
    /\ tabs_content[2] # EmptyFigure
    /\ last.download[3] # tabs_content[2]

\* the Dataset an upload leaves in the store
ExpectedData(contents) ==
    LET bytes == contents[2][2]
        text == bytes[2]
        header == text[2]
        lines == text[3]
    IN IF /\ bytes[1] = "utf8"
          /\ text[1] = "csv"
          /\ header # <<>>
          /\ lines # <<>>
          /\ \A i \in 1..Len(lines) : Len(lines[i]) <= Len(header)
          /\ \E j \in 1..Len(header) : header[j] = "Plasmid_ID"
       THEN <<"records",
              [i \in 1..Len(lines) |->
                  [c \in Range(header) |->
                      lines[i][CHOOSE j \in 1..Len(header) : header[j] = c]]]>>
       ELSE None

\* C10: an upload leaves the parsed table in the store when the payload
\* parses, has rows and has a Plasmid_ID column, and nothing otherwise; no
\* other action writes the store; render_content on an absent Dataset gives
\* the placeholder.
C10_DatasetOfLastUpload ==
    [][/\ last'.action = "upload" => stored_data' = ExpectedData(last'.input)
       /\ last'.action # "upload" => stored_data' = stored_data
       /\ (Ran("render_content")' /\ stored_data' = None) =>
             (tabs_content' = Placeholder /\ last'.exc = "none")]_vars

\* a failed upload has discarded the Dataset whose chart is still on display
C10_Witness ==
    /\ last.action = "upload"
    /\ stored_data = None
    /\ tabs_content[1] = "Graph"

====
